---- MODULE Spec2Model ----
(***************************************************************************)
(* http-health-checker: the probe (HealthChecker::check_url), the fan-out  *)
(* (HealthChecker::check_all_urls) and the scheduler loop of main.         *)
(*                                                                         *)
(* An Option<T> is a sequence of length at most one: <<>> is None and      *)
(* <<x>> is Some(x).  Time is counted in microseconds on one clock, now.   *)
(***************************************************************************)
EXTENDS Integers, Sequences, FiniteSets, TLC

VARIABLES
    cli,        \* the parsed command line: urls, interval, output, once
    urls,       \* the list handed to check_all_urls
    net,        \* the ways a request can resolve in this run (environment)
    pc,         \* where main stands in its loop
    futures,    \* the check_url futures held by join_all, by input index
    order,      \* the completion order of the probes of the batch not yet printed
    results,    \* the Vec<HealthCheck> the current iteration works on
    batch,      \* how many times check_all_urls was invoked
    printed,    \* how many batches print_results wrote to the terminal
    saveCalls,  \* how many times save_results_to_file was called
    errLog,     \* how many "Failed to save results" lines went to stderr
    file,       \* the output file
    sleeps,     \* how many times the loop went to sleep
    now,        \* the clock, in microseconds
    exit,       \* the exit code of the process, None while it runs
    gets        \* how many GET requests were sent so far, by URL

vars == <<cli, urls, net, pc, futures, order, results, batch, printed,
          saveCalls, errLog, file, sleeps, now, exit, gets>>

-----------------------------------------------------------------------------
(* Bounds of the model *)

\* the longest URL list given with --urls
MaxUrls == 2
\* the number of batches after which the model stops the loop
MaxBatches == 2
\* the second after which the model lets no more time pass during a batch
MaxSeconds == 11

-----------------------------------------------------------------------------
(* Values *)

None == <<>>
Some(x) == <<x>>
IsSome(o) == Len(o) = 1
IsNone(o) == Len(o) = 0

\* the URLs a user passes; the last is rejected by the HTTP client
Urls == {"https://httpbin.org/status/200", "https://httpbin.org/status/404",
         "not-a-valid-url"}

Malformed(url) == url = "not-a-valid-url"

RECURSIVE SeqsUpTo(_, _)
SeqsUpTo(S, n) ==
    IF n = 0 THEN {<<>>}
    ELSE LET shorter == SeqsUpTo(S, n - 1)
         IN  shorter \cup {Append(s, x) : s \in {t \in shorter : Len(t) = n - 1}, x \in S}

UrlLists == SeqsUpTo(Urls, MaxUrls)

DefaultInterval == 30

\* HealthChecker::new(Duration::from_secs(10)) in main
TimeoutSecs == 10

Intervals == {0, DefaultInterval}

Outputs == {None, Some("out.json")}

\* Duration::from_secs, in microseconds
FromSecs(s) == s * 1000000

\* a duration that is taken in microseconds where milliseconds are meant
AsMicrosForMillis(d) == d

\* Duration::as_millis() as u64: whole milliseconds of a duration
AsMillis(d) == d \div 1000

\* Result<Response, reqwest::Error> of client.get(url).send().await
OkResponse(code) == [ok |-> TRUE, code |-> code, msg |-> ""]
ErrSend(msg) == [ok |-> FALSE, code |-> 0, msg |-> msg]

StatusCodes == {101, 200, 204, 299, 300, 404, 500}
SendErrors == {"operation timed out", "error sending request", "builder error"}

AllResolutions ==
    {OkResponse(c) : c \in StatusCodes} \cup {ErrSend(m) : m \in SendErrors}

\* a small environment for the runs of the whole program
FewResolutions ==
    {OkResponse(200), OkResponse(500), ErrSend("operation timed out")}

\* what the client can answer for a URL: a malformed URL fails the request
Resolutions(url) ==
    IF Malformed(url) THEN {ErrSend("builder error")}
    ELSE net \ {ErrSend("builder error")}

-----------------------------------------------------------------------------
(* lib.rs: HealthCheck *)

NewSuccess(url, status_code, response_time) ==
    [url              |-> url,
     status           |-> "UP",
     status_code      |-> Some(status_code),
     response_time_ms |-> AsMillis(response_time),
     timestamp        |-> now,
     error            |-> None]

\* a failure record that forgets the error text
NewFailureNoError(url, error, response_time) ==
    [url              |-> url,
     status           |-> "DOWN",
     status_code      |-> None,
     response_time_ms |-> AsMillis(response_time),
     timestamp        |-> now,
     error            |-> None]

NewFailure(url, error, response_time) ==
    [url              |-> url,
     status           |-> "DOWN",
     status_code      |-> None,
     response_time_ms |-> AsMillis(response_time),
     timestamp        |-> now,
     error            |-> Some(error)]

-----------------------------------------------------------------------------
(* lib.rs: HealthChecker *)

\* a success test that accepts 200 only
IsSuccessOnly200(code) == code = 200

\* StatusCode::is_success
IsSuccess(code) == code >= 200 /\ code < 300

\* an error text that leaves the code out
FormatHttpNoCode(status_code) == "HTTP error"

\* format!("HTTP {status_code}")
FormatHttp(status_code) == "HTTP " \o ToString(status_code)

\* check_url echoing the URL the response came from instead of its input
CheckUrlFinalUrl(url, r, start) ==
    LET response_time == now - start
    IN  IF r.ok
        THEN IF IsSuccess(r.code)
             THEN NewSuccess("final:" \o url, r.code, response_time)
             ELSE NewFailure("final:" \o url, FormatHttp(r.code), response_time)
        ELSE NewFailure(url, r.msg, response_time)

\* check_url replacing the transport error's message by a fixed text
CheckUrlGenericError(url, r, start) ==
    LET response_time == now - start
    IN  IF r.ok
        THEN IF IsSuccess(r.code)
             THEN NewSuccess(url, r.code, response_time)
             ELSE NewFailure(url, FormatHttp(r.code), response_time)
        ELSE NewFailure(url, "request failed", response_time)

\* check_url keeping the code of a non-2xx response in the outcome
CheckUrlKeepsCode(url, r, start) ==
    LET response_time == now - start
    IN  IF r.ok
        THEN IF IsSuccess(r.code)
             THEN NewSuccess(url, r.code, response_time)
             ELSE [NewFailure(url, FormatHttp(r.code), response_time)
                      EXCEPT !.status_code = Some(r.code)]
        ELSE NewFailure(url, r.msg, response_time)

\* the match of check_url on the result r of the request started at start
CheckUrl(url, r, start) ==
    LET response_time == now - start
    IN  IF r.ok
        THEN IF IsSuccess(r.code)
             THEN NewSuccess(url, r.code, response_time)
             ELSE NewFailure(url, FormatHttp(r.code), response_time)
        ELSE NewFailure(url, r.msg, response_time)

\* a future of check_url polled for the first time: start is taken and the
\* request is sent; the future then awaits send()
SentFuture == [st |-> "sent", start |-> now, res |-> None, out |-> None]

\* the same future once send() has resolved to r: check_url returns
DoneFuture(url, f, r) ==
    [st    |-> "done",
     start |-> f.start,
     res   |-> Some(r),
     out   |-> Some(CheckUrl(url, r, f.start))]

\* the instant at which the client gives up the request of probe i
Deadline(i) == futures[i].start + FromSecs(TimeoutSecs)

\* a client built without .timeout(timeout): no request ever expires
ExpiredNever(i) == FALSE

\* Client::builder().timeout(timeout): the request of probe i has used up its
\* total time
Expired(i) == now >= Deadline(i)

\* how often url stands in the list
CountIn(list, url) == Cardinality({i \in DOMAIN list : list[i] = url})

NoGets == [u \in {} |-> 0]

\* the requests sent so far and one GET for each entry of the list: every
\* future of check_url sends its own request when it is first polled
Requested(sent, list) ==
    [u \in DOMAIN sent \cup {list[i] : i \in DOMAIN list} |->
        (IF u \in DOMAIN sent THEN sent[u] ELSE 0) + CountIn(list, u)]

AllDone == \A i \in DOMAIN futures : futures[i].st = "done"

InFlight == {i \in DOMAIN futures : futures[i].st = "sent"}

\* a join that yields the outputs in the order the futures completed
JoinAllCompletionOrder(fs, completed) ==
    [k \in 1..Len(fs) |-> fs[completed[k]].out[1]]

\* join_all yields the outputs in the order of the futures it was given
JoinAll(fs, completed) == [i \in 1..Len(fs) |-> fs[i].out[1]]

\* a fan-out that awaits each probe before it starts the next: only the first
\* request is sent by the first poll
CheckAllUrlsOneByOne ==
    /\ pc = "check"
    /\ batch < MaxBatches
    /\ futures' = [i \in 1..Len(urls) |->
                      IF i = 1 THEN SentFuture ELSE [SentFuture EXCEPT !.st = "new"]]
    /\ gets' = Requested(gets, IF urls = <<>> THEN <<>> ELSE <<urls[1]>>)
    /\ batch' = batch + 1
    /\ pc' = "join"
    /\ UNCHANGED <<cli, urls, net, order, results, printed, saveCalls, errLog, file,
                   sleeps, now, exit>>

\* check_all_urls, up to the await: one future per entry of urls, all of them
\* polled by the first poll of join_all
CheckAllUrls ==
    /\ pc = "check"
    /\ batch < MaxBatches
    /\ futures' = [i \in 1..Len(urls) |-> SentFuture]
    /\ gets' = Requested(gets, urls)
    /\ batch' = batch + 1
    /\ pc' = "join"
    /\ UNCHANGED <<cli, urls, net, order, results, printed, saveCalls, errLog, file,
                   sleeps, now, exit>>

\* a prober that shares one request among the entries with the same URL
ResolveSameUrl(i, r) ==
    /\ pc = "join"
    /\ i \in DOMAIN futures
    /\ futures[i].st = "sent"
    /\ r \in Resolutions(urls[i])
    /\ futures' = [j \in DOMAIN futures |->
                      IF urls[j] = urls[i] /\ futures[j].st = "sent"
                      THEN DoneFuture(urls[j], futures[j], r)
                      ELSE futures[j]]
    /\ order' = Append(order, i)
    /\ UNCHANGED <<gets, cli, urls, net, pc, results, batch, printed, saveCalls,
                   errLog, file, sleeps, now, exit>>

\* send() of probe i resolves to r and check_url returns its HealthCheck
Resolve(i, r) ==
    /\ pc = "join"
    /\ i \in DOMAIN futures
    /\ futures[i].st = "sent"
    /\ r \in Resolutions(urls[i])
    /\ Expired(i) => r = ErrSend("operation timed out")
    /\ futures' = [futures EXCEPT ![i] = DoneFuture(urls[i], @, r)]
    /\ order' = Append(order, i)
    /\ UNCHANGED <<gets, cli, urls, net, pc, results, batch, printed, saveCalls,
                   errLog, file, sleeps, now, exit>>

\* a join that gives up at the first DOWN outcome and returns what it has
JoinAllReturnOnFirstDown ==
    /\ pc = "join"
    /\ \/ AllDone
       \/ \E i \in DOMAIN futures :
              futures[i].st = "done" /\ futures[i].out[1].status = "DOWN"
    /\ results' = LET done == SelectSeq(futures, LAMBDA f : f.st = "done")
                  IN  [k \in 1..Len(done) |-> done[k].out[1]]
    /\ futures' = <<>>
    /\ pc' = "print"
    /\ UNCHANGED <<gets, cli, urls, net, order, batch, printed, saveCalls, errLog,
                   file, sleeps, now, exit>>

\* join_all completes once every future has completed
JoinAllReturn ==
    /\ pc = "join"
    /\ AllDone
    /\ results' = JoinAll(futures, order)
    /\ futures' = <<>>
    /\ pc' = "print"
    /\ UNCHANGED <<gets, cli, urls, net, order, batch, printed, saveCalls, errLog,
                   file, sleeps, now, exit>>

-----------------------------------------------------------------------------
(* main.rs: the reporter *)

\* a JSON value: null, a number or a string
JNull == <<"null">>
JNum(n) == <<"num", ToString(n)>>
JStr(str) == <<"str", str>>

Pad(n, width) ==
    LET digits == ToString(n)
        zeros == [k \in 0..6 |-> CASE k = 0 -> "" [] k = 1 -> "0" [] k = 2 -> "00"
                                    [] k = 3 -> "000" [] k = 4 -> "0000"
                                    [] k = 5 -> "00000" [] OTHER -> "000000"]
        len == CASE n < 10 -> 1 [] n < 100 -> 2 [] n < 1000 -> 3 [] n < 10000 -> 4
                 [] n < 100000 -> 5 [] OTHER -> 6
    IN  zeros[IF width > len THEN width - len ELSE 0] \o digits

\* DateTime<Utc> as serde writes it (RFC 3339), the clock starting at the epoch
Rfc3339(t) ==
    LET secs == t \div 1000000
        frac == t % 1000000
    IN  "1970-01-01T" \o Pad(secs \div 3600, 2) \o ":" \o Pad((secs \div 60) % 60, 2)
            \o ":" \o Pad(secs % 60, 2)
            \o (IF frac = 0 THEN "" ELSE "." \o Pad(frac, 6)) \o "Z"

\* #[derive(Serialize)] of HealthCheck
ToJson(h) ==
    [url              |-> JStr(h.url),
     status           |-> JStr(h.status),
     status_code      |-> IF IsSome(h.status_code) THEN JNum(h.status_code[1]) ELSE JNull,
     response_time_ms |-> JNum(h.response_time_ms),
     timestamp        |-> JStr(Rfc3339(h.timestamp)),
     error            |-> IF IsSome(h.error) THEN JStr(h.error[1]) ELSE JNull]

\* serde_json::to_string_pretty(results): one array of objects
ToStringPretty(rs) == [i \in 1..Len(rs) |-> ToJson(rs[i])]

NoFile == [exists |-> FALSE, complete |-> FALSE, doc |-> <<>>]
WrittenFile(doc) == [exists |-> TRUE, complete |-> TRUE, doc |-> doc]
TornFile == [exists |-> TRUE, complete |-> FALSE, doc |-> <<>>]

\* what a failed save leaves behind: the file as it was (serialization or
\* open failed) or a truncated file (the write failed after the open)
FailedWrites(f) == {f, TornFile}

\* a loop that prints and leaves the file write out
PrintResultsThenSkipSave ==
    /\ pc = "print"
    /\ printed' = printed + 1
    /\ order' = <<>>
    /\ pc' = "once"
    /\ UNCHANGED <<gets, cli, urls, net, futures, results, batch, saveCalls,
                   errLog, file, sleeps, now, exit>>

\* print_results(&results)
PrintResults ==
    /\ pc = "print"
    /\ printed' = printed + 1
    /\ order' = <<>>
    /\ pc' = IF IsSome(cli.output) THEN "save" ELSE "once"
    /\ UNCHANGED <<gets, cli, urls, net, futures, results, batch, saveCalls,
                   errLog, file, sleeps, now, exit>>

\* a save that opens the file for appending
SaveOkAppend ==
    /\ pc = "save"
    /\ saveCalls' = saveCalls + 1
    /\ file' = WrittenFile(file.doc \o ToStringPretty(results))
    /\ pc' = "once"
    /\ UNCHANGED <<gets, cli, urls, net, futures, order, results, batch, printed,
                   errLog, sleeps, now, exit>>

\* save_results_to_file returns Ok(())
SaveOk ==
    /\ pc = "save"
    /\ saveCalls' = saveCalls + 1
    /\ file' = WrittenFile(ToStringPretty(results))
    /\ pc' = "once"
    /\ UNCHANGED <<gets, cli, urls, net, futures, order, results, batch, printed,
                   errLog, sleeps, now, exit>>

\* a failed save that main propagates with `?`: the process ends with an error
SaveErrAborts ==
    /\ pc = "save"
    /\ saveCalls' = saveCalls + 1
    /\ \E f \in FailedWrites(file) : file' = f
    /\ errLog' = errLog + 1
    /\ pc' = "done"
    /\ exit' = Some(1)
    /\ UNCHANGED <<gets, cli, urls, net, futures, order, results, batch, printed,
                   sleeps, now>>

\* save_results_to_file returns Err(e): main logs it and goes on
SaveErr ==
    /\ pc = "save"
    /\ saveCalls' = saveCalls + 1
    /\ \E f \in FailedWrites(file) : file' = f
    /\ errLog' = errLog + 1
    /\ pc' = "once"
    /\ UNCHANGED <<gets, cli, urls, net, futures, order, results, batch, printed,
                   sleeps, now, exit>>

-----------------------------------------------------------------------------
(* main.rs: main *)

GetDefaultUrls ==
    <<"https://httpbin.org/status/200", "https://google.com", "https://github.com">>

\* a startup that takes the list as given, empty or not
StartupUrlsNoDefault(c) == c.urls

\* let urls = if cli.urls.is_empty() { get_default_urls() } else { cli.urls }
StartupUrls(c) == IF Len(c.urls) = 0 THEN GetDefaultUrls ELSE c.urls

\* a loop that leaves after the first batch whatever --once says
OnceBreakAlways ==
    /\ pc = "once"
    /\ pc' = "done"
    /\ exit' = Some(0)
    /\ UNCHANGED <<gets, cli, urls, net, futures, order, results, batch, printed,
                   saveCalls, errLog, file, sleeps, now>>

\* if cli.once { break } ... Ok(())
OnceBreak ==
    /\ pc = "once"
    /\ cli.once
    /\ pc' = "done"
    /\ exit' = Some(0)
    /\ UNCHANGED <<gets, cli, urls, net, futures, order, results, batch, printed,
                   saveCalls, errLog, file, sleeps, now>>

\* a loop that sleeps before it looks at --once
SleepBeforeOnceTest ==
    /\ pc = "once"
    /\ sleeps' = sleeps + 1
    /\ pc' = "sleep"
    /\ UNCHANGED <<gets, cli, urls, net, futures, order, results, batch, printed,
                   saveCalls, errLog, file, now, exit>>

\* time::sleep(interval) is entered
Sleep ==
    /\ pc = "once"
    /\ ~cli.once
    /\ sleeps' = sleeps + 1
    /\ pc' = "sleep"
    /\ UNCHANGED <<gets, cli, urls, net, futures, order, results, batch, printed,
                   saveCalls, errLog, file, now, exit>>

\* a sleep that returns at once
WakeAtOnce ==
    /\ pc = "sleep"
    /\ results' = <<>>
    /\ pc' = "check"
    /\ UNCHANGED <<gets, cli, urls, net, futures, order, batch, printed, saveCalls,
                   errLog, file, sleeps, exit, now>>

\* time::sleep(interval) returns, interval later; the iteration ends, results
\* is dropped and the loop starts over
Wake ==
    /\ pc = "sleep"
    /\ now' = now + FromSecs(cli.interval)
    /\ results' = <<>>
    /\ pc' = "check"
    /\ UNCHANGED <<gets, cli, urls, net, futures, order, batch, printed, saveCalls,
                   errLog, file, sleeps, exit>>

-----------------------------------------------------------------------------
(* The program: main from a parsed command line *)

Clis == [urls : UrlLists, interval : Intervals, output : Outputs, once : BOOLEAN]

Init ==
    /\ cli \in Clis
    /\ urls = StartupUrls(cli)
    /\ net = FewResolutions
    /\ pc = "check"
    /\ futures = <<>>
    /\ order = <<>>
    /\ results = <<>>
    /\ batch = 0
    /\ printed = 0
    /\ saveCalls = 0
    /\ errLog = 0
    /\ file = NoFile
    /\ sleeps = 0
    /\ now = 0
    /\ exit = None
    /\ gets = NoGets

Next ==
    \/ CheckAllUrls
    \/ \E i \in DOMAIN futures, r \in AllResolutions : Resolve(i, r)
    \/ JoinAllReturn
    \/ PrintResults
    \/ SaveOk
    \/ SaveErr
    \/ OnceBreak
    \/ Sleep
    \/ Wake

Spec == Init /\ [][Next]_vars

-----------------------------------------------------------------------------
(* The program in time: main with --interval 1, time passing while it awaits *)
(* the probes or the file write                                             *)

\* the time that passes in one step: a quarter of the timeout and a bit
TickStep == FromSecs(TimeoutSecs) \div 4 + 1

Min(S) == CHOOSE x \in S : \A y \in S : x <= y

\* time passes while main is suspended in check_all_urls or in the file
\* write, up to the next deadline of a pending request: a request still
\* pending at its deadline is failed by the client before time goes on, and
\* a request for a malformed URL is refused when it is first polled
Tick ==
    /\ pc \in {"join", "save"}
    /\ \A i \in InFlight : ~Expired(i) /\ ~Malformed(urls[i])
    /\ LET next == Min({now + TickStep} \cup {Deadline(i) : i \in InFlight})
       IN  /\ next <= FromSecs(MaxSeconds)
           /\ now' = next
    /\ UNCHANGED <<gets, cli, urls, net, pc, futures, order, results, batch,
                   printed, saveCalls, errLog, file, sleeps, exit>>

\* --interval 1, no --output, one or two URLs
TimedClis ==
    [urls     : {<<"not-a-valid-url">>,
                 <<"https://httpbin.org/status/200", "https://httpbin.org/status/404">>},
     interval : {1},
     output   : {None},
     once     : BOOLEAN]

InitTimed ==
    /\ cli \in TimedClis
    /\ urls = StartupUrls(cli)
    /\ net = FewResolutions
    /\ pc = "check"
    /\ futures = <<>>
    /\ order = <<>>
    /\ results = <<>>
    /\ batch = 0
    /\ printed = 0
    /\ saveCalls = 0
    /\ errLog = 0
    /\ file = NoFile
    /\ sleeps = 0
    /\ now = 0
    /\ exit = None
    /\ gets = NoGets

\* without --output the loop never calls save_results_to_file
NextTimed ==
    \/ CheckAllUrls
    \/ \E i \in DOMAIN futures, r \in AllResolutions : Resolve(i, r)
    \/ JoinAllReturn
    \/ PrintResults
    \/ OnceBreak
    \/ Sleep
    \/ Wake
    \/ Tick

\* the runtime runs main whenever it can go on, and the client ends every
\* request: by a response, by a transport error or, at the latest, by the
\* timeout
Fairness ==
    /\ WF_vars(CheckAllUrls)
    /\ \A i \in 1..MaxUrls :
           WF_vars(\E r \in AllResolutions : Resolve(i, r))
    /\ WF_vars(JoinAllReturn)
    /\ WF_vars(PrintResults)
    /\ WF_vars(OnceBreak)
    /\ WF_vars(Sleep)
    /\ WF_vars(Wake)

SpecTimed == InitTimed /\ [][NextTimed]_vars /\ Fairness

-----------------------------------------------------------------------------
(* The library: one call of check_all_urls on any list, any responses *)

LibCli == [urls |-> <<>>, interval |-> 0, output |-> None, once |-> TRUE]

InitLib ==
    /\ cli = LibCli
    /\ urls \in UrlLists
    /\ net = AllResolutions
    /\ pc = "check"
    /\ futures = <<>>
    /\ order = <<>>
    /\ results = <<>>
    /\ batch = 0
    /\ printed = 0
    /\ saveCalls = 0
    /\ errLog = 0
    /\ file = NoFile
    /\ sleeps = 0
    /\ now = 0
    /\ exit = None
    /\ gets = NoGets

NextLib ==
    \/ CheckAllUrls
    \/ \E i \in DOMAIN futures, r \in AllResolutions : Resolve(i, r)
    \/ JoinAllReturn

SpecLib == InitLib /\ [][NextLib]_vars

-----------------------------------------------------------------------------
(* Properties of check_all_urls and check_url, checked under SpecLib *)

\* the probes that have returned
Returned == {i \in DOMAIN futures : futures[i].st = "done"}

Response(i) == futures[i].res[1]
Outcome(i) == futures[i].out[1]

GotNon2xx(i) == Response(i).ok /\ ~(Response(i).code \in 200..299)
Got2xx(i) == Response(i).ok /\ Response(i).code \in 200..299
GotTransportError(i) == ~Response(i).ok

\* C1: when check_all_urls returns, the list has the length of urls and its
\* i-th outcome is the one of urls[i], whatever the order of completion.
C1_ResultsInInputOrder ==
    pc = "print" =>
        /\ Len(results) = Len(urls)
        /\ \A i \in 1..Len(urls) : results[i].url = urls[i]

\* C1 witness: a call on two different URLs has returned, the second probe
\* having completed before the first.
C1_Witness_ReversedCompletion ==
    /\ pc = "print"
    /\ Len(urls) = 2
    /\ urls[1] # urls[2]
    /\ order = <<2, 1>>
    /\ Len(results) = 2

\* C2: every probe whose request has resolved, in whatever way, has returned
\* exactly one outcome, whose url is the input URL verbatim; a probe whose
\* request is pending has returned nothing.
C2_CheckUrlAlwaysYieldsOutcome ==
    \A i \in DOMAIN futures :
        /\ futures[i].st \in {"sent", "done"}
        /\ futures[i].st = "sent" => IsNone(futures[i].out)
        /\ futures[i].st = "done" =>
               /\ IsSome(futures[i].out)
               /\ Outcome(i).url = urls[i]

\* C2 witness: all the kinds of resolution have produced an outcome: a
\* malformed URL, a transport error and a response.
C2_Witness_EveryKindReturned ==
    /\ Len(urls) = 2
    /\ Returned = {1, 2}
    /\ Malformed(urls[1]) /\ GotTransportError(1)
    /\ GotNon2xx(2)

\* C3 as stated: a response with a code outside 200..299 gives DOWN, with
\* status_code the response code and error "HTTP <code>".
C3_Original_Non2xxKeepsCode ==
    \A i \in Returned :
        GotNon2xx(i) =>
            /\ Outcome(i).status = "DOWN"
            /\ Outcome(i).status_code = Some(Response(i).code)
            /\ Outcome(i).error = Some(FormatHttp(Response(i).code))

\* C3 amended: a response with a code outside 200..299 gives DOWN, with
\* status_code absent and error "HTTP <code>" carrying the response code.
C3_Non2xxIsDownWithHttpError ==
    \A i \in Returned :
        GotNon2xx(i) =>
            /\ Outcome(i).status = "DOWN"
            /\ Outcome(i).status_code = None
            /\ Outcome(i).error =
                   Some(CASE Response(i).code = 101 -> "HTTP 101"
                          [] Response(i).code = 300 -> "HTTP 300"
                          [] Response(i).code = 404 -> "HTTP 404"
                          [] Response(i).code = 500 -> "HTTP 500"
                          [] OTHER -> "?")

\* C3 witness: a probe has returned on a 500 response.
C3_Witness_Got500 ==
    \E i \in Returned : Response(i) = OkResponse(500)

\* C4: a response with a code in 200..299 gives UP, with status_code the
\* response code and no error; and an outcome is UP only on such a response.
C4_UpIffGot2xx ==
    \A i \in Returned :
        /\ Got2xx(i) =>
               /\ Outcome(i).status = "UP"
               /\ Outcome(i).status_code = Some(Response(i).code)
               /\ Outcome(i).error = None
        /\ Outcome(i).status = "UP" => Got2xx(i)

\* C4 witness: a probe has returned on a 299 response.
C4_Witness_Got299 ==
    \E i \in Returned : Response(i) = OkResponse(299) /\ Outcome(i).status = "UP"

\* C5: a transport-level failure gives DOWN, with status_code absent and
\* error the failure's message.
C5_TransportErrorIsDown ==
    \A i \in Returned :
        GotTransportError(i) =>
            /\ Outcome(i).status = "DOWN"
            /\ Outcome(i).status_code = None
            /\ Outcome(i).error = Some(Response(i).msg)

\* C5 witness: a probe has returned on a timeout.
C5_Witness_TimedOut ==
    \E i \in Returned :
        Response(i) = ErrSend("operation timed out") /\ Outcome(i).status = "DOWN"

\* C7: every DOWN outcome returned by check_url has status_code absent, also
\* on a non-2xx response; status_code is present on UP outcomes only.
C7_DownHasNoStatusCode ==
    \A i \in Returned :
        /\ Outcome(i).status = "DOWN" => IsNone(Outcome(i).status_code)
        /\ IsSome(Outcome(i).status_code) => Outcome(i).status = "UP"

\* C7 witness: a DOWN outcome has been returned for a 404 response.
C7_Witness_DownOn404 ==
    \E i \in Returned :
        Response(i) = OkResponse(404) /\ Outcome(i).status = "DOWN"

\* the step in which check_all_urls returns its list
Returns == pc = "join" /\ pc' = "print"

\* C11: check_all_urls returns only when every probe has returned, and its
\* list then holds at each index the outcome that probe returned; until then
\* a probe in flight stays in flight, whatever the other probes resolved to.
C11_ReturnsAfterEveryProbe ==
    /\ [](pc = "join" /\ Returned # DOMAIN futures => ~ENABLED JoinAllReturn)
    /\ [](pc = "join" =>
             \A i \in InFlight : ENABLED (\E r \in AllResolutions : Resolve(i, r)))
    /\ [][Returns =>
             /\ Returned = 1..Len(urls)
             /\ Len(results') = Len(urls)
             /\ \A i \in 1..Len(urls) : results'[i] = Outcome(i)]_vars
    /\ [][\A i \in InFlight : pc' = "join" => futures'[i].st \in {"sent", "done"}]_vars

\* C11 witness: the first probe resolved DOWN first, the second resolved UP
\* after it, and the call returned both.
C11_Witness_DownFirstThenUp ==
    /\ pc = "print"
    /\ order = <<1, 2>>
    /\ Len(results) = 2
    /\ results[1].status = "DOWN"
    /\ results[2].status = "UP"

\* C12: right after the first poll every probe of the list is in flight, all
\* started at the same instant, and none is ever left unstarted while
\* another is awaited; for the empty list nothing is requested and the empty
\* list is returned.
C12_AllLaunchedBeforeAnyAwaited ==
    /\ pc = "join" =>
           /\ DOMAIN futures = 1..Len(urls)
           /\ \A i \in DOMAIN futures :
                  futures[i].st \in {"sent", "done"} /\ futures[i].start = futures[1].start
           /\ order = <<>> => InFlight = 1..Len(urls)
    /\ urls = <<>> =>
           /\ gets = NoGets
           /\ InFlight = {}
           /\ pc = "print" => results = <<>>

\* C12 witness: the probes of a list of two are both in flight.
C12_Witness_AllInFlight ==
    pc = "join" /\ Len(urls) = 2 /\ InFlight = {1, 2}

\* C17: a batch sends one GET for each entry of the list, so a URL standing m
\* times in it is requested m times; no request is sent after the launch
\* (nothing is retried); a resolution completes the one probe it belongs to
\* and leaves the others as they are, and the status of an outcome follows
\* from the resolution of its own probe.
C17_OneGetPerEntry ==
    /\ [](batch > 0 =>
             /\ DOMAIN gets = {urls[i] : i \in DOMAIN urls}
             /\ \A u \in DOMAIN gets :
                    gets[u] = batch * Cardinality({i \in DOMAIN urls : urls[i] = u}))
    /\ [](\A i \in Returned :
             Outcome(i).status = (IF Got2xx(i) THEN "UP" ELSE "DOWN"))
    /\ [][pc = "join" /\ pc' = "join" =>
             /\ gets' = gets
             /\ Cardinality({j \in DOMAIN futures : futures'[j] # futures[j]}) <= 1
             /\ \A j \in Returned : futures'[j] = futures[j]]_vars

\* C17 witness: a list naming one URL twice got two requests and two
\* outcomes, one UP and one DOWN.
C17_Witness_DuplicateUrlTwoOutcomes ==
    /\ Len(urls) = 2
    /\ urls[1] = urls[2]
    /\ Returned = {1, 2}
    /\ gets[urls[1]] = 2
    /\ Outcome(1).status = "UP"
    /\ Outcome(2).status = "DOWN"

-----------------------------------------------------------------------------
(* Properties of the whole program, checked under Spec *)

\* every HealthCheck that exists: returned by a probe, or in the batch
Outcomes ==
    {Outcome(i) : i \in Returned} \cup {results[i] : i \in DOMAIN results}

WellFormed(h) ==
    /\ h.status \in {"UP", "DOWN"}
    /\ IsSome(h.error) <=> h.status = "DOWN"
    /\ h.status = "UP" => IsSome(h.status_code) /\ h.status_code[1] \in 200..299

\* a step leaves every outcome as it was constructed: in a future until
\* join_all hands it over, at its index in the batch from then on, through
\* the terminal print, the file write and the test of --once
OutcomesKept ==
    /\ \A i \in Returned :
           IF pc' = "join" THEN futures'[i].out = futures[i].out
           ELSE results'[i] = Outcome(i)
    /\ pc \in {"print", "save", "once"} => results' = results

\* C6: every outcome in a reachable state has status UP or DOWN, an error
\* exactly when it is DOWN, and a status_code in 200..299 when it is UP; and
\* no step changes an outcome once it is constructed.
C6_OutcomesWellFormedAndImmutable ==
    [](\A h \in Outcomes : WellFormed(h)) /\ [][OutcomesKept]_vars

\* C6 witness: a batch with an UP and a DOWN outcome has been printed and
\* written to the file.
C6_Witness_MixedBatchReported ==
    /\ pc = "once"
    /\ file.complete
    /\ \E i, j \in DOMAIN results :
           results[i].status = "UP" /\ results[j].status = "DOWN"

\* C8: with --once, check_all_urls is invoked once, the batch is reported
\* once (printed, and saved when --output is given), the loop never sleeps,
\* and the process ends with exit code 0 after that one batch.
C8_OnceRunsOneBatch ==
    cli.once =>
        /\ batch <= 1
        /\ printed <= 1
        /\ saveCalls <= 1
        /\ sleeps = 0
        /\ pc \notin {"sleep"}
        /\ pc = "once" => ENABLED OnceBreak
        /\ pc = "done" <=> exit # None
        /\ pc = "done" =>
               /\ batch = 1
               /\ printed = 1
               /\ saveCalls = (IF IsSome(cli.output) THEN 1 ELSE 0)
               /\ exit = Some(0)

\* C8 witness: a run with --once and --output has ended.
C8_Witness_OnceDone ==
    cli.once /\ IsSome(cli.output) /\ pc = "done" /\ batch = 1

\* the number of batches fully reported
Reported == IF IsSome(cli.output) THEN saveCalls ELSE printed

\* C9: probes are in flight only while main awaits check_all_urls, they all
\* belong to the latest batch, and every earlier batch has been printed and
\* then saved before they were launched; the print of a batch precedes its
\* file write; at most |urls| probes are in flight.
C9_BatchesNeverOverlap ==
    /\ pc # "join" => futures = <<>>
    /\ pc = "join" =>
           /\ Len(futures) = Len(urls)
           /\ printed = batch - 1
           /\ Reported = batch - 1
           /\ \A i \in DOMAIN futures : futures[i].start = now
    /\ pc = "save" => printed = batch /\ saveCalls = batch - 1
    /\ pc \in {"once", "sleep", "done"} => printed = batch /\ Reported = batch
    /\ Cardinality(InFlight) <= Len(urls)

\* C9 witness: all the probes of a second batch are in flight with --output
\* given and an interval of 0.
C9_Witness_SecondBatchInFlight ==
    /\ pc = "join"
    /\ batch = 2
    /\ cli.interval = 0
    /\ IsSome(cli.output)
    /\ Cardinality(InFlight) = Len(urls)

\* the step of a failed save: a line goes to stderr
SaveFailed == errLog' = errLog + 1

\* C10: a failed save is logged and leaves main where a successful save
\* leaves it, with the batch and no exit code; after a failure the loop goes
\* on as ever: with --once it ends with exit code 0, without it sleeps and
\* runs the next batch.
C10_SaveFailureSwallowed ==
    /\ [][SaveFailed => pc = "save" /\ pc' = "once" /\ exit' = None
                           /\ results' = results /\ batch' = batch]_vars
    /\ [](errLog > 0 =>
             /\ exit \in {None, Some(0)}
             /\ pc = "once" => IF cli.once THEN ENABLED OnceBreak ELSE ENABLED Sleep
             /\ pc = "sleep" => ENABLED Wake
             /\ pc = "check" => batch >= MaxBatches \/ ENABLED CheckAllUrls
             /\ pc = "done" => cli.once /\ exit = Some(0))

\* C10 witness: a second batch has been launched after a failed save.
C10_Witness_BatchAfterFailure ==
    errLog = 1 /\ saveCalls = 1 /\ batch = 2 /\ pc = "join"


\* C13: without --once the process never ends by itself and has no exit code:
\* after each batch the loop goes to sleep, wakes up and starts the next
\* batch, whatever the outcomes and whether or not the save failed; exit code
\* 0 occurs with --once only.
C13_LoopEndsOnlyWithOnce ==
    /\ exit # None => cli.once /\ exit = Some(0)
    /\ ~cli.once =>
           /\ pc # "done"
           /\ exit = None
           /\ pc = "once" => ENABLED Sleep /\ ~ENABLED OnceBreak
           /\ pc = "sleep" => ENABLED Wake
           /\ pc = "check" => batch >= MaxBatches \/ ENABLED CheckAllUrls
           /\ sleeps = (IF pc \in {"check", "sleep"} THEN batch ELSE batch - 1)

\* C13 witness: without --once the loop sleeps after its second batch, which
\* held a DOWN outcome and was not saved.
C13_Witness_SleepsAfterSecondBatch ==
    /\ ~cli.once
    /\ pc = "sleep"
    /\ sleeps = 2
    /\ errLog = 2
    /\ \E i \in DOMAIN results : results[i].status = "DOWN"

\* a step that changes the output file
FileChanges == file' # file

\* a step in which save_results_to_file succeeds
SaveSucceeds == saveCalls' = saveCalls + 1 /\ errLog' = errLog

\* the file is written once per batch when --output is given, never without
WritesOncePerBatch ==
    IF IsSome(cli.output)
    THEN saveCalls = (IF pc \in {"join", "print", "save"} THEN batch - 1 ELSE batch)
    ELSE saveCalls = 0 /\ file = NoFile

\* a complete file is one batch: an object for each URL, in input order
HoldsOneBatch ==
    file.complete =>
        /\ Len(file.doc) = Len(urls)
        /\ \A i \in DOMAIN urls : file.doc[i].url = JStr(urls[i])

\* C14 as stated: the file is written once per batch exactly when --output
\* is given, a successful write replaces the content by the whole current
\* batch, and a file that holds a written batch holds it until the next
\* successful write replaces it.
C14_Original_FileHoldsLastSavedBatch ==
    /\ [](WritesOncePerBatch /\ HoldsOneBatch)
    /\ [][SaveSucceeds => file' = WrittenFile(ToStringPretty(results))]_vars
    /\ [][file.complete /\ FileChanges =>
             SaveSucceeds /\ file' = WrittenFile(ToStringPretty(results))]_vars

\* C14 amended: the file is written once per batch exactly when --output is
\* given, a successful write replaces the content by the whole current
\* batch, and the file changes in no other way but one: a failed write may
\* leave it truncated.  A file that is not truncated never mixes batches.
C14_FileHoldsLastSavedBatchOrIsTorn ==
    /\ [](WritesOncePerBatch /\ HoldsOneBatch)
    /\ [][SaveSucceeds => file' = WrittenFile(ToStringPretty(results))]_vars
    /\ [][FileChanges =>
             /\ pc = "save"
             /\ IsSome(cli.output)
             /\ \/ SaveSucceeds /\ file' = WrittenFile(ToStringPretty(results))
                \/ ~SaveSucceeds /\ file' = TornFile]_vars

\* C14 witness: the second batch, taken 30 seconds after the first, has
\* replaced the first in the file.
C14_Witness_SecondBatchReplacedFirst ==
    /\ pc = "once"
    /\ batch = 2
    /\ errLog = 0
    /\ file = WrittenFile(ToStringPretty(results))
    /\ file.doc[1].timestamp = JStr("1970-01-01T00:00:30Z")

\* C19: the list main probes is the three default URLs when --urls is empty
\* and the given list otherwise, so it is never empty; no step changes it or
\* the command line, and every batch is the probes, then the outcomes, of
\* that list in its order.
C19_UrlListFixedAtStartup ==
    /\ [](urls = IF Len(cli.urls) = 0
                 THEN <<"https://httpbin.org/status/200", "https://google.com",
                        "https://github.com">>
                 ELSE cli.urls)
    /\ [](Len(urls) >= 1)
    /\ [](pc = "join" => Len(futures) = Len(urls))
    /\ [](pc \in {"print", "save", "once", "sleep", "done"} =>
             /\ Len(results) = Len(urls)
             /\ \A i \in DOMAIN urls : results[i].url = urls[i])
    /\ [][urls' = urls /\ cli' = cli]_vars

\* C19 witness: with no --urls the second batch has its three probes in
\* flight.
C19_Witness_DefaultsProbedAgain ==
    /\ cli.urls = <<>>
    /\ batch = 2
    /\ pc = "join"
    /\ Len(futures) = 3
    /\ gets["https://google.com"] = 2

-----------------------------------------------------------------------------
(* Properties of the program in time, checked under SpecTimed *)

\* main is suspended: in check_all_urls, in the file write or in the sleep
Suspended == pc \in {"join", "save", "sleep"}

\* the whole intervals that have passed since the start
IntervalsElapsed == now \div FromSecs(cli.interval)

\* the batch in hand is in the order of the list
BatchInInputOrder ==
    pc \in {"print", "save", "once", "sleep", "done"} =>
        /\ Len(results) = Len(urls)
        /\ \A i \in DOMAIN urls : results[i].url = urls[i]

C16_EveryBatchReturns ==
    /\ [](\A i \in InFlight : now - futures[i].start <= FromSecs(10))
    /\ [](\A i \in Returned :
             Outcome(i).timestamp - futures[i].start >= FromSecs(10) =>
                 /\ Outcome(i).status = "DOWN"
                 /\ Outcome(i).error = Some("operation timed out"))
    /\ (pc = "join") ~> (pc = "print")
    /\ cli.once => <>(pc = "done" /\ exit = Some(0))
    /\ \A k \in 1..(MaxBatches - 1) : (~cli.once /\ batch = k) ~> (batch = k + 1)

\* C16 witness: a probe whose request ran into the timeout has returned DOWN
\* and the call has returned with it.
C16_Witness_TimedOutProbeReturned ==
    /\ pc = "print"
    /\ \E i \in DOMAIN results :
           /\ results[i].response_time_ms = 10000
           /\ results[i].status = "DOWN"
           /\ results[i].error = Some("operation timed out")

\* C18: every outcome has a response time of at least 0 and a timestamp not
\* before the launch of its probe; the response time is the whole
\* milliseconds between the launch and the outcome, on the success branch
\* and on the failure branch.
C18_ResponseTimeIsElapsedMillis ==
    /\ \A h \in Outcomes : h.response_time_ms >= 0 /\ h.timestamp >= 0
    /\ \A i \in Returned :
           /\ Outcome(i).timestamp >= futures[i].start
           /\ Outcome(i).response_time_ms =
                  (Outcome(i).timestamp - futures[i].start) \div 1000

\* C18 witness: an UP outcome after 2.500001 seconds and a DOWN outcome after
\* 5.000002 seconds, with 2500 and 5000 milliseconds.
C18_Witness_UpAndDownWithTimes ==
    /\ Returned = {1, 2}
    /\ Outcome(1).status = "UP" /\ Outcome(1).response_time_ms = 2500
    /\ Outcome(2).status = "DOWN" /\ Outcome(2).response_time_ms = 5000

====
